---- MODULE Spec2Model ----
(***************************************************************************)
(* Model of riot_tournament_stats.py: the paging loop of                   *)
(* get_all_match_ids, the worksheet writer write_to_sheet, the directly    *)
(* callable helpers (get_game_time_windows, get_puuid_from_riot_id,        *)
(* get_match_details, is_inhouse_game, extract_stats) and main.            *)
(*                                                                         *)
(* The module's import block (lines 22-28) binds requests, gspread, time,  *)
(* sys, os, load_dotenv and Credentials only.  The names datetime,         *)
(* timezone and timedelta are used at lines 94, 183, 299 and 432 but are   *)
(* bound nowhere, so evaluating any of those lines raises NameError.       *)
(***************************************************************************)
EXTENDS Integers, Sequences, FiniteSets, TLC

VARIABLES
    \* ---- get_all_match_ids(puuid, earliest_timestamp) ----
    hlen,               \* length of the player's remote history (ids 1..hlen, newest first)
    earliest_timestamp, \* argument: earliest window start, epoch seconds
    gpc,                \* position: "idle" | "request" | "peek" | "returned" | "raised"
    start_index,        \* local start_index
    all_ids,            \* local all_ids
    batch,              \* local batch (the page just received)
    pages,              \* log of page requests: [start, status, len]
    peeks,              \* log of peek (detail) requests: [id, status, ts], ts = -1 on failure
    gret,               \* what the call produced: [kind, ids]
    \* ---- write_to_sheet(worksheet, all_rows) ----
    sheet,              \* the worksheet: rows 1..Len(sheet), the last one occupied
    before,             \* the worksheet as the latest call found it
    new_rows,           \* argument all_rows of the latest call
    writes,             \* worksheet.update calls of the latest call: [row, values]
    read_failed,        \* whether worksheet.row_values(1) raised in the latest call
    ncalls,             \* calls of write_to_sheet so far
    \* ---- a direct call of one of the helper functions ----
    cfn,                \* the function called last ("none" before the first call)
    carg,               \* its arguments
    cret,               \* what it produced: [kind, value]
    creqs,              \* number of HTTP requests it made
    \* ---- main() ----
    RIOT_API_KEY,       \* os.getenv("RIOT_API_KEY"): "" when unset
    credentials_exist,  \* os.path.exists(GOOGLE_CREDENTIALS_FILE)
    PLAYER_RIOT_IDS,    \* the configured list of Riot IDs
    world,              \* the remote API: [lookup, hist, detail]
    mpc,                \* position in main
    mret,               \* how main ended: "none" | "returned" | "NameError"
    attempted,          \* Riot IDs handed to get_puuid_from_riot_id, in order
    fetched,            \* match ids handed to get_match_details, in order
    all_match_ids,      \* local all_match_ids
    all_rows,           \* local all_rows
    skipped_wrong_date, \* local skipped_wrong_date
    handed              \* rows handed to write_to_sheet

pagingVars == <<hlen, earliest_timestamp, gpc, start_index, all_ids, batch, pages, peeks, gret>>

sheetVars == <<sheet, before, new_rows, writes, read_failed, ncalls>>

callVars == <<cfn, carg, cret, creqs>>

mainVars == <<RIOT_API_KEY, credentials_exist, PLAYER_RIOT_IDS, world, mpc, mret,
              attempted, fetched, all_match_ids, all_rows, skipped_wrong_date, handed>>

vars == <<pagingVars, sheetVars, callVars, mainVars>>

otherThanPaging == <<sheetVars, callVars, mainVars>>

otherThanSheet == <<pagingVars, callVars, mainVars>>

otherThanCalls == <<pagingVars, sheetVars, mainVars>>

otherThanMain == <<pagingVars, sheetVars, callVars>>

\* ------------------------------------------------------------------ helpers

Min(a, b) == IF a < b THEN a ELSE b

Range(s) == {s[i] : i \in 1..Len(s)}

\* ------------------------------------------------------------------ bounds

\* Longest remote history explored: two full pages and one identifier more.
MaxHist == 201

\* ------------------------------------------------- module-level configuration

\* batch_size = 100 (line 146)
batch_size == 100

\* The import block binds none of datetime, timezone, timedelta.
datetime_bound == FALSE

\* HTTP statuses a remote call may answer with: success and one failure.
Statuses == {200, 429}

\* ------------------------------------------------------ get_all_match_ids

\* The remote match-history index of the player: identifiers 1..n, newest first.
History(n) == [i \in 1..n |-> i]

\* GET .../by-puuid/{puuid}/ids?start=s&count=c on a history of n identifiers.
HistoryPage(n, s, c) ==
    IF s >= n THEN <<>> ELSE SubSeq(History(n), s + 1, Min(s + c, n))

NoReturn == [kind |-> "none", ids |-> <<>>]

PagingIdle ==
    /\ gpc = "idle" /\ hlen = 0 /\ earliest_timestamp = 0 /\ start_index = 0
    /\ all_ids = <<>> /\ batch = <<>> /\ pages = <<>> /\ peeks = <<>>
    /\ gret = NoReturn

\* Entry of get_all_match_ids: all_ids = [], start_index = 0 (lines 144-146).
PagingInit ==
    /\ hlen \in 0..MaxHist
    /\ earliest_timestamp \in {1, 2}
    /\ gpc = "request"
    /\ start_index = 0
    /\ all_ids = <<>>
    /\ batch = <<>>
    /\ pages = <<>>
    /\ peeks = <<>>
    /\ gret = NoReturn

\* Lines 149-170: one page request and what follows up to the peek request.
RequestPage ==
    /\ gpc = "request"
    /\ \E status \in Statuses :
        LET got == IF status = 200 THEN HistoryPage(hlen, start_index, batch_size) ELSE <<>>
        IN  /\ pages' = Append(pages, [start |-> start_index, status |-> status, len |-> Len(got)])
            /\ IF status # 200
               THEN \* line 160-162: break, return all_ids
                    /\ gpc' = "returned"
                    /\ gret' = [kind |-> "list", ids |-> all_ids]
                    /\ UNCHANGED <<all_ids, batch>>
               ELSE IF got = <<>>
               THEN \* line 165-167: break, return all_ids
                    /\ gpc' = "returned"
                    /\ gret' = [kind |-> "list", ids |-> all_ids]
                    /\ batch' = got
                    /\ UNCHANGED all_ids
               ELSE \* line 169: all_ids.extend(batch)
                    /\ all_ids' = all_ids \o got
                    /\ batch' = got
                    /\ gpc' = "peek"
                    /\ UNCHANGED gret
    /\ UNCHANGED <<hlen, earliest_timestamp, start_index, peeks>>
    /\ UNCHANGED otherThanPaging

\* AfterDateCheck without the short-batch break of lines 192-194.
AfterDateCheck_NoShortStop ==
    /\ start_index' = start_index + batch_size
    /\ gpc' = "request"
    /\ UNCHANGED gret

\* AfterDateCheck advancing the offset by one instead of by the batch size.
AfterDateCheck_AdvanceByOne ==
    IF Len(batch) < batch_size
    THEN /\ gpc' = "returned"
         /\ gret' = [kind |-> "list", ids |-> all_ids]
         /\ UNCHANGED start_index
    ELSE /\ start_index' = start_index + 1
         /\ gpc' = "request"
         /\ UNCHANGED gret

\* What lines 192-196 do once the date check did not break.
AfterDateCheck ==
    IF Len(batch) < batch_size
    THEN /\ gpc' = "returned"
         /\ gret' = [kind |-> "list", ids |-> all_ids]
         /\ UNCHANGED start_index
    ELSE /\ start_index' = start_index + batch_size
         /\ gpc' = "request"
         /\ UNCHANGED gret

\* Answers of the detail request for batch[-1]: a failure, or a match record
\* whose info.gameStartTimestamp (milliseconds, 0 when absent) lies before the
\* boundary or not.
PeekResponses(earliest) ==
    {[status |-> 429, ts |-> -1]}
        \cup {[status |-> 200, ts |-> t] : t \in {0, earliest * 1000 - 1, earliest * 1000}}

\* Lines 172-196: the detail request for batch[-1] and the rest of the iteration.
PeekOldest ==
    /\ gpc = "peek"
    /\ \E last_resp \in PeekResponses(earliest_timestamp) :
        /\ peeks' = Append(peeks, [id |-> batch[Len(batch)], status |-> last_resp.status,
                                   ts |-> last_resp.ts])
        /\ IF last_resp.status = 200
           THEN IF ~datetime_bound
                THEN \* line 183: timezone(...) raises NameError; nothing is returned
                     /\ gpc' = "raised"
                     /\ gret' = [kind |-> "NameError", ids |-> <<>>]
                     /\ UNCHANGED start_index
                ELSE IF last_resp.ts < earliest_timestamp * 1000
                THEN \* line 188-190: last_timestamp < earliest_timestamp, break
                     /\ gpc' = "returned"
                     /\ gret' = [kind |-> "list", ids |-> all_ids]
                     /\ UNCHANGED start_index
                ELSE AfterDateCheck
           ELSE AfterDateCheck
    /\ UNCHANGED <<hlen, earliest_timestamp, all_ids, batch, pages>>
    /\ UNCHANGED otherThanPaging

PagingNext == RequestPage \/ PeekOldest

\* ------------------------------------------------------------ write_to_sheet

\* Rows a worksheet may hold before the first call, longest data sequence of
\* one call, and number of calls explored.
MaxPrior == 2
MaxRows == 2
MaxCalls == 2

\* STAT_HEADERS (lines 275-289), abridged to its first two of 46 columns.
STAT_HEADERS == <<"Date", "Match ID">>

BlankRow == <<"", "">>

\* Rows found on a worksheet: blank, the header, a row that only starts like
\* the header, foreign data, foreign data with an empty first cell.
PriorRows == {BlankRow, STAT_HEADERS, <<"Date", "x">>, <<"x", "y">>, <<"", "y">>}

\* The i-th output row handed over by the c-th call (distinct, never blank).
RowNames ==
    << <<"r11", "r12", "r13", "r14">>, <<"r21", "r22", "r23", "r24">>,
       <<"r31", "r32", "r33", "r34">>, <<"r41", "r42", "r43", "r44">> >>

OutputRow(c, i) == <<RowNames[c][i], "NA1_1">>

\* A grid without its trailing blank rows: what the service reports as data.
RECURSIVE TrimRows(_)
TrimRows(g) ==
    IF g # <<>> /\ g[Len(g)] = BlankRow THEN TrimRows(SubSeq(g, 1, Len(g) - 1)) ELSE g

\* A row without its trailing empty cells.
RECURSIVE TrimCells(_)
TrimCells(r) ==
    IF r # <<>> /\ r[Len(r)] = "" THEN TrimCells(SubSeq(r, 1, Len(r) - 1)) ELSE r

\* worksheet.row_values(n)
row_values(g, n) == IF n <= Len(g) THEN TrimCells(g[n]) ELSE <<>>

\* worksheet.get_all_values()
get_all_values(g) == TrimRows(g)

\* worksheet.update('A<n>', values): values overwrite rows n .. n+len-1.
update(g, n, values) ==
    LET last == IF Len(g) > n + Len(values) - 1 THEN Len(g) ELSE n + Len(values) - 1
    IN  TrimRows([i \in 1..last |->
            IF i >= n /\ i < n + Len(values) THEN values[i - n + 1]
            ELSE IF i <= Len(g) THEN g[i] ELSE BlankRow])

\* NeedsHeader writing the header whatever row 1 holds.
NeedsHeader_Always(first_row) == TRUE

\* Lines 397-399: whether the header is (re)written, given what row 1 read as.
NeedsHeader(first_row) == first_row = <<>> \/ first_row[1] # STAT_HEADERS[1]

SheetIdle ==
    /\ sheet = <<>> /\ before = <<>> /\ new_rows = <<>> /\ writes = <<>>
    /\ read_failed = FALSE /\ ncalls = 0

SheetInit ==
    /\ sheet \in {g \in UNION {[1..n -> PriorRows] : n \in 0..MaxPrior} : TrimRows(g) = g}
    /\ before = sheet
    /\ new_rows = <<>>
    /\ writes = <<>>
    /\ read_failed = FALSE
    /\ ncalls = 0

\* write_to_sheet(worksheet, all_rows), lines 390-407.
WriteToSheet ==
    /\ ncalls < MaxCalls
    /\ \E n \in 0..MaxRows, raised \in BOOLEAN :
        LET rows      == [i \in 1..n |-> OutputRow(ncalls + 1, i)]
            first_row == IF raised THEN <<>> ELSE row_values(sheet, 1)
            hdr       == NeedsHeader(first_row)
            g1        == IF hdr THEN update(sheet, 1, <<STAT_HEADERS>>) ELSE sheet
            w1        == IF hdr THEN <<[row |-> 1, values |-> <<STAT_HEADERS>>]>> ELSE <<>>
            next_row  == Len(get_all_values(g1)) + 1
        IN  /\ before' = sheet
            /\ new_rows' = rows
            /\ read_failed' = raised
            /\ ncalls' = ncalls + 1
            /\ IF rows # <<>>
               THEN /\ sheet' = update(g1, next_row, rows)
                    /\ writes' = Append(w1, [row |-> next_row, values |-> rows])
               ELSE /\ sheet' = g1
                    /\ writes' = w1
    /\ UNCHANGED otherThanSheet

SheetNext == WriteToSheet

\* --------------------------------------------------------------------- main

MainIdle ==
    /\ RIOT_API_KEY = "" /\ credentials_exist = FALSE /\ PLAYER_RIOT_IDS = <<>>
    /\ world = <<>> /\ mpc = "idle" /\ mret = "none"
    /\ attempted = <<>> /\ fetched = <<>> /\ all_match_ids = {} /\ all_rows = <<>>
    /\ skipped_wrong_date = 0 /\ handed = <<>>

\* Longest PLAYER_RIOT_IDS list explored.
MaxPlayers == 2

\* Riot IDs that may be configured: two of the form Name#Tag, one without "#".
ConfiguredIds == { <<"a", "#", "t">>, <<"b", "#", "t">>, <<"a", "b">> }

\* Those of them the identity endpoint is asked about.
LookedUpIds == { <<"a", "#", "t">>, <<"b", "#", "t">> }

\* What the remote API holds: the status of each identity lookup, each player's
\* match history (newest first) and each match's detail response.
Worlds ==
    [lookup : [LookedUpIds -> Statuses],
     hist   : [LookedUpIds -> {<<>>, <<"NA1_1">>, <<"NA1_2", "NA1_1">>}],
     detail : [{"NA1_1", "NA1_2"} ->
                 [status : Statuses,
                  info : {[queueId |-> 0, gameStartTimestamp |-> 1500],
                          [queueId |-> 0, gameStartTimestamp |-> 999],
                          [queueId |-> 420, gameStartTimestamp |-> 1500]},
                  participants : {10}]]]

\* The module as loaded and the remote API before main() is called.
MainInit ==
    /\ RIOT_API_KEY \in {"", "your-riot-api-key-here", "RGAPI-key"}
    /\ credentials_exist \in BOOLEAN
    /\ PLAYER_RIOT_IDS \in UNION {[1..n -> ConfiguredIds] : n \in 0..MaxPlayers}
    /\ world \in Worlds
    /\ mpc = "api_key"
    /\ mret = "none"
    /\ attempted = <<>>
    /\ fetched = <<>>
    /\ all_match_ids = {}
    /\ all_rows = <<>>
    /\ skipped_wrong_date = 0
    /\ handed = <<>>

mainLocals == <<attempted, fetched, all_match_ids, all_rows, skipped_wrong_date, handed>>

mainConfig == <<RIOT_API_KEY, credentials_exist, PLAYER_RIOT_IDS, world>>

\* Lines 416-419.
CheckApiKey ==
    /\ mpc = "api_key"
    /\ IF RIOT_API_KEY = "" \/ RIOT_API_KEY = "your-riot-api-key-here"
       THEN mpc' = "done" /\ mret' = "returned"
       ELSE mpc' = "credentials" /\ UNCHANGED mret
    /\ UNCHANGED <<mainConfig, mainLocals, otherThanMain>>

\* Lines 421-424.
CheckCredentials ==
    /\ mpc = "credentials"
    /\ IF ~credentials_exist
       THEN mpc' = "done" /\ mret' = "returned"
       ELSE mpc' = "players" /\ UNCHANGED mret
    /\ UNCHANGED <<mainConfig, mainLocals, otherThanMain>>

\* Lines 426-428.
CheckPlayers ==
    /\ mpc = "players"
    /\ IF PLAYER_RIOT_IDS = <<>>
       THEN mpc' = "done" /\ mret' = "returned"
       ELSE mpc' = "windows" /\ UNCHANGED mret
    /\ UNCHANGED <<mainConfig, mainLocals, otherThanMain>>

\* Line 431: windows = get_game_time_windows(GAME_DAY).  The call raises
\* NameError at line 94 and main does not catch it: the run ends here, before
\* all_match_ids and all_rows are bound (lines 443-444) and before any lookup.
ResolveWindows ==
    /\ mpc = "windows"
    /\ ~datetime_bound
    /\ mpc' = "done"
    /\ mret' = "NameError"
    /\ UNCHANGED <<mainConfig, mainLocals, otherThanMain>>

MainNext == CheckApiKey \/ CheckCredentials \/ CheckPlayers \/ ResolveWindows

\* --------------------------------------------------- directly called helpers

\* Longest window sequence and longest participant list handed to a helper.
MaxWindows == 2
MaxParticipants == 2

\* GAME_TIMEZONE_OFFSET = -5 (line 74)
GAME_TIMEZONE_OFFSET == -5

\* CUSTOM_QUEUE_IDS = [0, 3130] (line 79)
CUSTOM_QUEUE_IDS == {0, 3130}

\* dict.get(key, default) on a JSON object modelled as a function on its keys.
Get(obj, key, default) == IF key \in DOMAIN obj THEN obj[key] ELSE default

\* A JSON object with some of its keys absent.
Restrict(obj, keys) == [k \in keys |-> obj[k]]

\* JSON objects with any of the keys of the given record set absent.
Objects(full, keys) == {Restrict(o, ks) : o \in full, ks \in SUBSET keys}

\* An info object of a match-detail response, as far as the helpers read it.
Infos ==
    Objects([queueId : {0, 3130, 420},
             gameType : {"CUSTOM_GAME", "MATCHED_GAME"},
             gameStartTimestamp : {999, 1000, 1500, 2000, 2001, 3500}],
            {"queueId", "gameType", "gameStartTimestamp"})

\* Window sequences (start, end) in epoch seconds, as get_game_time_windows
\* would hand them over.
WindowSeqs == UNION {[1..n -> {<<1, 2>>, <<3, 4>>}] : n \in 0..MaxWindows}

\* is_inhouse_game(match_data, windows), lines 216-231.  game_start is
\* gameStartTimestamp / 1000 (a float); start <= game_start <= end is decided
\* here on the milliseconds.
is_inhouse_game(info, windows) ==
    LET queue_id  == Get(info, "queueId", -1)
        game_type == Get(info, "gameType", "")
        is_custom == queue_id \in CUSTOM_QUEUE_IDS \/ game_type = "CUSTOM_GAME"
        game_start_ms == Get(info, "gameStartTimestamp", 0)
    IN  IF ~is_custom THEN FALSE
        ELSE \E i \in 1..Len(windows) :
                /\ windows[i][1] * 1000 <= game_start_ms
                /\ game_start_ms <= windows[i][2] * 1000

\* Riot IDs as character sequences.
RiotIds ==
    { <<"a", "#", "t">>, <<"b", "#", "t">>, <<"a", "b">>, <<"a", "#", "b", "#">>,
      <<"a", "#">>, <<>> }

\* len(riot_id.split("#")): one part more than there are separators.
SplitCount(riot_id) == Cardinality({i \in 1..Len(riot_id) : riot_id[i] = "#"}) + 1

CallsIdle == cfn = "none" /\ carg = <<>> /\ cret = [kind |-> "none"] /\ creqs = 0

\* get_game_time_windows(day_of_week), lines 92-115, called at local day
\* now.day (weekday now.day % 7, 0 = Monday) and hour now.hour: line 94 is
\* the first statement and raises NameError.
GetGameTimeWindows ==
    /\ ~datetime_bound
    /\ cfn = "none"
    /\ \E day_of_week \in 0..6, day \in 7..13, hour \in 0..23,
          dates \in {<<>>, <<7>>, <<14, 7>>} :
        /\ cfn' = "get_game_time_windows"
        /\ carg' = [day_of_week |-> day_of_week, TARGET_DATES |-> dates,
                    now |-> [day |-> day, hour |-> hour]]
        /\ cret' = [kind |-> "NameError"]
        /\ creqs' = 0
    /\ UNCHANGED otherThanCalls

\* get_puuid_from_riot_id(riot_id), lines 118-136.
GetPuuidFromRiotId ==
    /\ cfn = "none"
    /\ \E riot_id \in RiotIds, status \in Statuses, body \in Objects([puuid : {"P"}], {"puuid"}) :
        /\ cfn' = "get_puuid_from_riot_id"
        /\ IF SplitCount(riot_id) # 2
           THEN \* lines 121-123: no request is made
                /\ carg' = [riot_id |-> riot_id]
                /\ cret' = [kind |-> "None"]
                /\ creqs' = 0
           ELSE /\ carg' = [riot_id |-> riot_id, status |-> status, body |-> body]
                /\ creqs' = 1
                /\ cret' = IF status = 200 /\ "puuid" \in DOMAIN body
                           THEN [kind |-> "value", value |-> body.puuid]
                           ELSE [kind |-> "None"]
    /\ UNCHANGED otherThanCalls

\* get_match_details(match_id), lines 201-213.
GetMatchDetails ==
    /\ cfn = "none"
    /\ \E match_id \in {"NA1_1", "NA1_2"}, status \in Statuses, info \in Infos :
        /\ cfn' = "get_match_details"
        /\ carg' = [match_id |-> match_id, status |-> status, info |-> info]
        /\ creqs' = 1
        /\ cret' = IF status = 200
                   THEN [kind |-> "value", value |-> info]
                   ELSE [kind |-> "None"]
    /\ UNCHANGED otherThanCalls

\* is_inhouse_game(match_data, windows) called on a fetched match.
IsInhouseGame ==
    /\ cfn = "none"
    /\ \E info \in Infos, windows \in WindowSeqs :
        /\ cfn' = "is_inhouse_game"
        /\ carg' = [info |-> info, windows |-> windows]
        /\ creqs' = 0
        /\ cret' = [kind |-> "value", value |-> is_inhouse_game(info, windows)]
    /\ UNCHANGED otherThanCalls

\* extract_stats(match_data), lines 292-358: lines 294-297 bind locals, line
\* 299 raises NameError before any row is built.
ExtractStats ==
    /\ ~datetime_bound
    /\ cfn = "none"
    /\ \E info \in Infos, n \in 0..MaxParticipants :
        /\ cfn' = "extract_stats"
        /\ carg' = [info |-> info, participants |-> n]
        /\ creqs' = 0
        /\ cret' = [kind |-> "NameError"]
    /\ UNCHANGED otherThanCalls

CallsNext ==
    \/ GetGameTimeWindows
    \/ GetPuuidFromRiotId
    \/ GetMatchDetails
    \/ IsInhouseGame
    \/ ExtractStats

InitPaging == PagingInit /\ SheetIdle /\ CallsIdle /\ MainIdle

InitSheet == SheetInit /\ PagingIdle /\ CallsIdle /\ MainIdle

InitCalls == CallsIdle /\ PagingIdle /\ SheetIdle /\ MainIdle

SpecCalls == InitCalls /\ [][CallsNext]_vars

InitMain == MainInit /\ PagingIdle /\ SheetIdle /\ CallsIdle

SpecMain == InitMain /\ [][MainNext]_vars

SpecPaging == InitPaging /\ [][PagingNext]_vars

\* The call runs on one thread and every request is answered: a step that
\* can be taken is taken.
SpecPagingFair == InitPaging /\ [][PagingNext]_vars /\ WF_vars(PagingNext)

SpecSheet == InitSheet /\ [][SheetNext]_vars

\* ------------------------------------------------------------------ claims

\* The peek made on the i-th page showed a match older than the boundary.
PeekShowedOlder(i) ==
    /\ i <= Len(peeks)
    /\ peeks[i].status = 200
    /\ peeks[i].ts < earliest_timestamp * 1000

\* C1: pages are requested at offsets 0, 100, 200, ..., and a page is followed
\* by another request only if it was answered with a full batch of 100
\* identifiers whose oldest match was not seen to start before the boundary
\* (so an empty batch, a short batch and an older oldest match each end paging).
C1_PagingStops ==
    /\ \A i \in 1..Len(pages) : pages[i].start = (i - 1) * batch_size
    /\ \A i \in 1..(Len(pages) - 1) :
          /\ pages[i].status = 200
          /\ pages[i].len = batch_size
          /\ ~PeekShowedOlder(i)
    /\ (gpc \in {"returned", "raised"} => ~ENABLED PagingNext)

\* C1 witness: offsets 0, 100 and 200 were requested and the short third batch
\* ended the paging.
C1_Witness ==
    /\ gpc = "returned"
    /\ Len(pages) = 3
    /\ pages[3].start = 200
    /\ pages[3].len = 1

\* C2: once a batch shorter than 100 identifiers has been received, no page is
\* requested after it, and when the call has ended it has returned a list that
\* holds the identifiers of that batch.
C2_ShortBatchStopsAndIsReturned ==
    \A i \in 1..Len(pages) :
        (pages[i].status = 200 /\ pages[i].len > 0 /\ pages[i].len < batch_size)
        => /\ i = Len(pages)
           /\ gpc # "peek" =>
                /\ gret.kind = "list"
                /\ Range(batch) \subseteq Range(gret.ids)

\* Rows of g that are the canonical header.
HeaderRows(g) == {i \in 1..Len(g) : g[i] = STAT_HEADERS}

\* The latest call found the canonical header in row 1 and nowhere else.
HeaderWasPresent == ncalls > 0 /\ HeaderRows(before) = {1}

\* C6 as stated: on a worksheet whose first row already is the header, after
\* every call the header occurs once, in row 1, and no update of the call
\* touches row 1.
C6_NoWriteToRowOne ==
    HeaderWasPresent =>
        /\ HeaderRows(sheet) = {1}
        /\ \A k \in 1..Len(writes) : writes[k].row # 1

\* C6 amended: on a worksheet whose first row already is the header, after
\* every call the header occurs once, in row 1; an update of row 1 happens
\* only in a call whose read of row 1 raised, and then writes the header row.
C6_HeaderOnceInPlace ==
    HeaderWasPresent =>
        /\ HeaderRows(sheet) = {1}
        /\ \A k \in 1..Len(writes) :
              writes[k].row = 1 => (read_failed /\ writes[k].values = <<STAT_HEADERS>>)

\* C6 witness: a second call on a worksheet that holds the header and data has
\* read row 1 and appended rows.
C6_Witness ==
    /\ HeaderWasPresent
    /\ ncalls = 2
    /\ Len(before) > 1
    /\ ~read_failed
    /\ new_rows # <<>>
    /\ writes # <<>>

\* C7: every row occupied before the call is unchanged and in place, and the
\* new rows stand, in input order and without a gap, directly after the last
\* row occupied before the call (after the header row on an empty worksheet).
C7_PriorRowsKeptRowsAppended ==
    ncalls > 0 =>
        LET first == (IF before = <<>> THEN 1 ELSE Len(before)) + 1
        IN  /\ \A i \in 1..Len(before) : before[i] # BlankRow => sheet[i] = before[i]
            /\ new_rows # <<>> =>
                  /\ Len(sheet) = first + Len(new_rows) - 1
                  /\ \A j \in 1..Len(new_rows) : sheet[first + j - 1] = new_rows[j]

\* Main ran with a usable configuration and has ended.
RunEnded ==
    /\ mpc = "done"
    /\ RIOT_API_KEY \notin {"", "your-riot-api-key-here"}
    /\ credentials_exist
    /\ PLAYER_RIOT_IDS # <<>>

\* The configured players whose identity lookup succeeds, the match ids their
\* histories hold, and the window the run looks for.
ResolvedPlayers ==
    {p \in Range(PLAYER_RIOT_IDS) : SplitCount(p) = 2 /\ world.lookup[p] = 200}

DiscoveredIds == UNION {Range(world.hist[p]) : p \in ResolvedPlayers}

RunWindows == << <<1, 2>> >>

\* sorted(ids) for the match ids of the model.
SortedIds(ids) ==
    SelectSeq(<<"NA1_1", "NA1_2">>, LAMBDA m : m \in ids)

Occurrences(seq, x) == Cardinality({i \in 1..Len(seq) : seq[i] = x})

\* C3: when the run has ended, the accumulated collection is the set of the
\* identifiers found in the resolved players' histories, and the detail loop
\* has visited each of them exactly once.
C3_EachIdOnceAndVisitedOnce ==
    RunEnded =>
        /\ all_match_ids = DiscoveredIds
        /\ \A m \in DiscoveredIds : Occurrences(fetched, m) = 1

\* Fetched matches that are of custom type, and those of them inside a window.
FetchedOk == {m \in DiscoveredIds : world.detail[m].status = 200}

CustomType(m) ==
    \/ Get(world.detail[m].info, "queueId", -1) \in CUSTOM_QUEUE_IDS
    \/ Get(world.detail[m].info, "gameType", "") = "CUSTOM_GAME"

InSomeWindow(m) ==
    \E i \in 1..Len(RunWindows) :
        /\ RunWindows[i][1] * 1000 <= Get(world.detail[m].info, "gameStartTimestamp", 0)
        /\ Get(world.detail[m].info, "gameStartTimestamp", 0) <= RunWindows[i][2] * 1000

\* C5: when the run has ended, a fetched match has rows in the output iff it
\* is of custom type and starts inside a window (bounds included), and the
\* custom matches outside every window are the ones counted as wrong-date.
C5_QualifiesIffCustomInWindow ==
    RunEnded =>
        /\ \A m \in FetchedOk :
              (\E i \in 1..Len(all_rows) : all_rows[i].matchId = m)
                  <=> (CustomType(m) /\ InSomeWindow(m))
        /\ skipped_wrong_date
              = Cardinality({m \in FetchedOk : CustomType(m) /\ ~InSomeWindow(m)})

\* C8: the run is not aborted; every configured identifier is attempted once,
\* in order, and every discovered match id is fetched once, in sorted order,
\* whichever lookups fail.
C8_FailuresSkippedRunContinues ==
    RunEnded =>
        /\ mret = "returned"
        /\ attempted = PLAYER_RIOT_IDS
        /\ fetched = SortedIds(DiscoveredIds)

\* Epoch seconds of a local hour of a local day (fixed offset from UTC).
LocalTs(day, hour) == day * 86400 + hour * 3600 - GAME_TIMEZONE_OFFSET * 3600

\* C9: in auto-detect mode the call returns the single window [anchor 12:00,
\* next day 05:00], the anchor lying k days before today: k = 0 on the target
\* weekday from 12:00 on, k = 7 on the target weekday before 12:00, otherwise
\* the 1..6 days back to the latest target weekday; start < end.
C9_AutoWindowAnchored ==
    (cfn = "get_game_time_windows" /\ carg.TARGET_DATES = <<>>) =>
        LET today  == carg.now.day
            target == carg.day_of_week
            k      == IF today % 7 = target
                      THEN (IF carg.now.hour >= 12 THEN 0 ELSE 7)
                      ELSE CHOOSE j \in 1..6 : (today - j) % 7 = target
            anchor == today - k
        IN  /\ anchor % 7 = target
            /\ LocalTs(anchor, 12) < LocalTs(anchor + 1, 5)
            /\ cret = [kind |-> "value",
                       value |-> << <<LocalTs(anchor, 12), LocalTs(anchor + 1, 5)>> >>]

\* One output row per participant of match m.
RowsOf(m) ==
    [i \in 1..world.detail[m].participants |-> [matchId |-> m, participant |-> i]]

RECURSIVE RowsOfAll(_)
RowsOfAll(ids) ==
    IF ids = <<>> THEN <<>> ELSE RowsOf(Head(ids)) \o RowsOfAll(Tail(ids))

\* C10: when the run has ended, the rows handed to write_to_sheet are one row
\* per participant of each qualifying fetched match, carrying its match id,
\* and no other row.
C10_RowsPerQualifyingParticipant ==
    RunEnded =>
        handed = RowsOfAll(SortedIds({m \in FetchedOk : CustomType(m) /\ InSomeWindow(m)}))

\* The call of get_all_match_ids has ended, by return or by raising.
PagingEnded == gpc \in {"returned", "raised"}

\* The offset grows by 100 from one page request to the next, and a history
\* of hlen identifiers is asked for at most hlen \div 100 + 1 pages.
PagesBounded ==
    /\ \A i \in 1..(Len(pages) - 1) : pages[i + 1].start = pages[i].start + batch_size
    /\ Len(pages) <= hlen \div batch_size + 1

\* C11: for every finite history and every outcome of the page and peek
\* calls, the call of get_all_match_ids eventually ends; until then the
\* offset grows by 100 per iteration and at most floor(hlen / 100) + 1 page
\* requests are made.
C11_PagingTerminates == []PagesBounded /\ <>PagingEnded

\* C11 witness: a history of 200 identifiers was paged to its end with the
\* full 200 \div 100 + 1 = 3 page requests, and the call has returned.
C11_Witness ==
    /\ gpc = "returned"
    /\ hlen = 200
    /\ Len(pages) = hlen \div batch_size + 1
    /\ pages[3].len = 0

====
